---- MODULE Spec2Model ----
(***************************************************************************)
(* Model of the scenario runner of abyss_test                              *)
(* (src/mininet-control/abyss_test/scenario_runner.go).                    *)
(*                                                                         *)
(* Two loops share one ScenarioRunner: Run (the timeline executor) walks   *)
(* the scenario, and HandleEvents (the event consumer) drains the host's   *)
(* event channel.  Both touch sr.world and sr.out_f under sr.world_mtx.    *)
(* The Abyss host, the contact files and the clock are the environment.    *)
(***************************************************************************)
EXTENDS Integers, Sequences, FiniteSets, TLC

(***************************************************************************)
(* Bounds of the model.                                                    *)
(***************************************************************************)
\* longest scenario drawn in Init
MaxSteps == 2
\* events the host emits in one run
MaxEvents == 1
\* JoinWorld failures the host produces in one run under Spec
MaxJoinFails == 1

(***************************************************************************)
(* Program constants.                                                      *)
(***************************************************************************)
\* for i := range 100
MaxAttempts == 100
\* if i == 99 { ... break }
LastIter == 99
\* time.Sleep(time.Millisecond * 100)
JoinSleepMs == 100
\* time.Unix(sec, 0) against UnixMilli: milliseconds in one second
MsPerSec == 1000
\* sr.world == nil
NoWorld == 0

(***************************************************************************)
(* Inputs of NewScenarioRunner drawn in Init.                              *)
(***************************************************************************)
TimeStarts == {1}
Durations == {1}

\* the value Go's map lookup gives for a missing key
NoValue == ""

\* step["time"] strings are sequences of characters
Digits == {"0", "1", "2", "3", "4", "5", "6", "7", "8", "9"}

DigitVal(c) ==
  CASE c = "0" -> 0 [] c = "1" -> 1 [] c = "2" -> 2 [] c = "3" -> 3 [] c = "4" -> 4
    [] c = "5" -> 5 [] c = "6" -> 6 [] c = "7" -> 7 [] c = "8" -> 8 [] c = "9" -> 9

RECURSIVE ParseUint(_)
ParseUint(s) ==
  IF s = <<>> THEN 0
  ELSE ParseUint(SubSeq(s, 1, Len(s) - 1)) * 10 + DigitVal(s[Len(s)])

\* a parser that takes anything it cannot read for 0
ParseInt_lenient(s) ==
  LET signed == s # <<>> /\ s[1] \in {"+", "-"}
      neg == s # <<>> /\ s[1] = "-"
      body == IF signed THEN Tail(s) ELSE s
  IN IF body = <<>> \/ \E k \in DOMAIN body : body[k] \notin Digits
       THEN [ok |-> TRUE, val |-> 0]
       ELSE [ok |-> TRUE, val |-> IF neg THEN 0 - ParseUint(body) ELSE ParseUint(body)]

\* strconv.ParseInt(timeStr, 10, 64): optional sign, then one or more digits
ParseInt(s) ==
  LET signed == s # <<>> /\ s[1] \in {"+", "-"}
      neg == s # <<>> /\ s[1] = "-"
      body == IF signed THEN Tail(s) ELSE s
  IN IF body = <<>> \/ \E k \in DOMAIN body : body[k] \notin Digits
       THEN [ok |-> FALSE, val |-> 0]
       ELSE [ok |-> TRUE, val |-> IF neg THEN 0 - ParseUint(body) ELSE ParseUint(body)]

\* step[key], "" when the key is missing
Get(step, key) == IF key \in DOMAIN step THEN step[key] ELSE NoValue

(***************************************************************************)
(* The step descriptors scenarios are built from: the four actions at      *)
(* offset 0, an unknown action at a negative offset, an open at the offset *)
(* that reaches time_end, a descriptor without time, one whose time is no  *)
(* integer.                                                                *)
(***************************************************************************)
StepDescriptors ==
  {[time |-> <<"0">>, do |-> d, id |-> "p1"] : d \in {"add", "dial", "join", "open"}}
    \cup {[time |-> <<"-", "1">>, do |-> "nop"],
          [time |-> <<"1">>, do |-> "open"],
          [time |-> <<"x">>, do |-> "open"],
          [do |-> "join", id |-> "p1"]}

Scenarios == UNION {[1..n -> StepDescriptors] : n \in 0..MaxSteps}

EventKinds ==
  {"WorldEnter", "SessionRequest", "SessionReady", "SessionClose",
   "ObjectAppend", "ObjectDelete", "WorldLeave"}

HostOps ==
  {"AppendKnownPeer", "Dial", "JoinWorld", "OpenWorld", "CloseWorld",
   "ExposeWorldForJoin", "AcceptWorldSession"}

\* and.World.SessionID(): every World has its own session id
SessionID(w) == <<"world", w>>

\* the session id a session event carries (event.SessionID)
PeerSession == <<"peer", 1>>

\* any_event before the first receive and between two iterations
NoEvent == [kind |-> "none", world |-> NoWorld, session |-> PeerSession]

VARIABLES
  \* ScenarioRunner fields
  scenario, time_start, time_end, out_open, world_mtx, world,
  \* Run: position and locals
  pc_e, idx, target, i, err,
  \* HandleEvents: position and the event in hand
  pc_c, ev,
  \* the host: event source closed, worlds handed out, what it may still do
  ch_closed, next_world, ev_budget, fail_budget,
  \* the clock (Unix time in ms); it advances while the executor sleeps
  now,
  \* observations: writes on out_f, host calls, diagnostics
  trace, ncalls, nwarn, nerr, ncloses,
  \* observations: steps dispatched, worlds returned / closed / left
  executed, returned, closed, left,
  \* observations of the current step
  join_calls, join_ok, step_old, superseded,
  \* observations: the contact file whose read failed; host calls and writes
  \* made since the lock was last taken
  read_err, span_calls, span_writes,
  \* the clock when world_mtx was last taken (0 while it is free)
  span_from

vars ==
  <<scenario, time_start, time_end, out_open, world_mtx, world,
    pc_e, idx, target, i, err, pc_c, ev,
    ch_closed, next_world, ev_budget, fail_budget, now,
    trace, ncalls, nwarn, nerr, ncloses,
    executed, returned, closed, left,
    join_calls, join_ok, step_old, superseded,
    read_err, span_calls, span_writes, span_from>>

runner_vars == <<scenario, time_start, time_end>>
exec_locals == <<idx, target, i, err>>
cons_vars == <<pc_c, ev>>
host_vars == <<ch_closed, next_world, ev_budget, fail_budget>>
step_obs == <<join_calls, join_ok, step_old, superseded>>
world_obs == <<returned, closed, left>>
span_obs == <<span_calls, span_writes>>

\* log.Fatalf ends the process: nothing runs afterwards
Alive == pc_e # "fatal"

\* one fmt.Fprintf(sr.out_f, "%d <code> %v\n", time.Now().UnixMilli(), subject);
\* ok tells whether out_f was still open (a write on a closed file fails)
Line(code, subject, by, w) ==
  [ts |-> now, code |-> code, subject |-> subject, by |-> by, w |-> w,
   step |-> IF by = "exec" THEN idx ELSE 0, ok |-> out_open, held |-> world_mtx]

\* what time.Now().UnixMilli() can return to a statement of the lock span
\* that ends now: the clock as it was when the lock was taken, or as it is
Stamps == {span_from, now}

\* a line with the timestamp its Fprintf was given
Stamped(line, ts) == [line EXCEPT !.ts = ts]

\* the X line of a close stamped in seconds: time.Now().Unix()
CloseStamp_seconds(t) == t \div MsPerSec

\* the X line of a close is stamped time.Now().UnixMilli()
CloseStamp(t) == t

Called(c, op) == [c EXCEPT ![op] = @ + 1]

\* target_timestamp >= sr.time_end, with > in place of >=
PastWindow_gt(t) == t > time_end

\* if target_timestamp >= sr.time_end { break }
PastWindow(t) == t >= time_end

\* targetTime.After(now) that never asks for a wait
After_never(t, n) == FALSE

\* a wait that is taken whatever the clock says
After_always(t, n) == TRUE

\* targetTime.After(now)
After(t, n) == t > n

\* if sr.world != nil, never taken
NeedsClose_never(w) == FALSE

\* the close path without its nil check
NeedsClose_always(w) == TRUE

\* if sr.world != nil { CloseWorld; log X }
NeedsClose(w) == w # NoWorld

\* the X line naming the reference after it was cleared
XSubject_cleared(w) == SessionID(NoWorld)

\* the subject of the X line of a close: sr.world.SessionID()
XSubject(w) == SessionID(w)

\* if err == nil { break }, never taken
JoinDone_never(e) == FALSE

\* if err == nil { break }
JoinDone(e) == e = FALSE

\* the filter without the session id comparison
Matches_any(w, e) == w # NoWorld

\* sr.world != nil && sr.world.SessionID() == event.World.SessionID()
Matches(w, e) == w # NoWorld /\ SessionID(w) = SessionID(e.world)

\* EANDWorldLeave that keeps the reference
AfterLeave_keep(w) == w

\* EANDWorldLeave: sr.world = nil
AfterLeave(w) == NoWorld

\* a switch whose unknown values fall into the open case
SwitchCase_openDefault(do) ==
  IF do \in {"add", "dial", "join"} THEN do ELSE "open"

\* switch step["do"]: the case a value selects, "none" when no case names it
SwitchCase(do) ==
  IF do \in {"add", "dial", "join", "open"} THEN do ELSE "none"

\* add that checks the error of the first read only
AddReady_rcOnly(rc_ok, hs_ok) == rc_ok

\* add reaches AppendKnownPeer when neither ReadFile returned an error
AddReady(rc_ok, hs_ok) == rc_ok /\ hs_ok

\* a mutex that never blocks
CanLock_always(m) == TRUE

\* sr.world_mtx.Lock() returns once nobody holds the mutex
CanLock(m) == m = "none"

\* an Unlock that is missing
Released_kept(m) == m

\* sr.world_mtx.Unlock()
Released(m) == "none"

\* the codes of SessionReady and SessionClose exchanged
LineCode_swapped(kind) ==
  CASE kind = "WorldEnter" -> "E"
    [] kind = "SessionReady" -> "L"
    [] kind = "SessionClose" -> "J"
    [] kind = "WorldLeave" -> "X"

\* the code letter each case of the type switch prints
LineCode(kind) ==
  CASE kind = "WorldEnter" -> "E"
    [] kind = "SessionReady" -> "J"
    [] kind = "SessionClose" -> "L"
    [] kind = "WorldLeave" -> "X"

\* the state NewScenarioRunner leaves, whatever the scenario
Constructed ==
  /\ time_start \in TimeStarts
  /\ \E d \in Durations : time_end = time_start + d
  /\ out_open = TRUE
  /\ world_mtx = "none"
  /\ world = NoWorld
  /\ pc_e = "loop"
  /\ idx = 1
  /\ target = 0
  /\ i = 0
  /\ err = FALSE
  /\ pc_c = "recv"
  /\ ev = NoEvent
  /\ ch_closed = FALSE
  /\ next_world = 1
  /\ ev_budget = MaxEvents
  /\ now = 0
  /\ trace = <<>>
  /\ ncalls = [op \in HostOps |-> 0]
  /\ nwarn = 0
  /\ nerr = 0
  /\ ncloses = 0
  /\ executed = {}
  /\ returned = {}
  /\ closed = {}
  /\ left = {}
  /\ join_calls = 0
  /\ join_ok = NoWorld
  /\ step_old = NoWorld
  /\ superseded = {}
  /\ read_err = "none"
  /\ span_calls = 0
  /\ span_writes = 0
  /\ span_from = 0

Init ==
  /\ scenario \in Scenarios
  /\ fail_budget = MaxJoinFails
  /\ Constructed

\* one-step scenarios, and a join after an open: here JoinWorld may fail every time
RetryScenarios ==
  [1..1 -> StepDescriptors]
    \cup {<<[time |-> <<"0">>, do |-> "open", id |-> "p1"],
            [time |-> <<"0">>, do |-> "join", id |-> "p1"]>>}

InitRetry ==
  /\ scenario \in RetryScenarios
  /\ fail_budget = MaxAttempts
  /\ Constructed


(***************************************************************************)
(* Run: the timeline executor.                                             *)
(***************************************************************************)
TargetMs == target * MsPerSec

\* for i, step := range sr.scenario: the "time" lookup, ParseInt, the cutoff
ExecNextStep ==
  /\ pc_e = "loop"
  /\ IF idx > Len(scenario)
       THEN /\ pc_e' = "end_wait"
            /\ UNCHANGED <<idx, target, nwarn, join_calls, join_ok, step_old>>
       ELSE LET step == scenario[idx]
                r == ParseInt(step["time"])
            IN IF "time" \notin DOMAIN step \/ ~r.ok
                 THEN \* log.Printf(...); continue
                      /\ nwarn' = nwarn + 1
                      /\ idx' = idx + 1
                      /\ UNCHANGED <<pc_e, target, join_calls, join_ok, step_old>>
                 ELSE IF PastWindow(time_start + r.val)
                        THEN \* break
                             /\ pc_e' = "end_wait"
                             /\ UNCHANGED <<idx, target, nwarn, join_calls, join_ok, step_old>>
                        ELSE /\ target' = time_start + r.val
                             /\ pc_e' = "wait"
                             /\ join_calls' = 0
                             /\ join_ok' = NoWorld
                             /\ step_old' = NoWorld
                             /\ UNCHANGED <<idx, nwarn>>
  /\ UNCHANGED <<runner_vars, span_from, read_err, span_obs, out_open, world_mtx, world, i, err, cons_vars, host_vars,
                 now, trace, ncalls, nerr, ncloses, executed, world_obs, superseded>>

\* if targetTime.After(now) { time.Sleep(targetTime.Sub(now)) }
ExecWait ==
  /\ pc_e = "wait"
  /\ now' = IF After(TargetMs, now) THEN TargetMs ELSE now
  /\ pc_e' = "action"
  /\ UNCHANGED <<runner_vars, span_from, read_err, span_obs, out_open, world_mtx, world, exec_locals, cons_vars,
                 host_vars, trace, ncalls, nwarn, nerr, ncloses, executed, world_obs,
                 step_obs>>

Do == Get(scenario[idx], "do")

\* the end of one iteration of the step loop: its locals go out of scope
StepEnd ==
  /\ idx' = idx + 1
  /\ target' = 0
  /\ i' = 0
  /\ err' = FALSE
  /\ pc_e' = "loop"

\* case "add": two contact files, then AppendKnownPeer
ExecAdd ==
  /\ pc_e = "action"
  /\ SwitchCase(Do) = "add"
  /\ executed' = executed \cup {idx}
  /\ \E rc_ok, hs_ok \in BOOLEAN :
       /\ read_err' = IF ~rc_ok THEN "rc" ELSE IF ~hs_ok THEN "hs" ELSE read_err
       /\ IF AddReady(rc_ok, hs_ok)
            THEN /\ ncalls' = Called(ncalls, "AppendKnownPeer")
                 /\ StepEnd
            ELSE /\ pc_e' = "fatal"
                 /\ UNCHANGED <<ncalls, exec_locals>>
  /\ UNCHANGED <<runner_vars, span_from, span_obs, out_open, world_mtx, world, cons_vars,
                 host_vars, now, trace, nwarn, nerr, ncloses, world_obs, step_obs>>

\* case "dial": the identity hash file, then Dial
ExecDial ==
  /\ pc_e = "action"
  /\ SwitchCase(Do) = "dial"
  /\ executed' = executed \cup {idx}
  /\ \E id_ok \in BOOLEAN :
       /\ read_err' = IF id_ok THEN read_err ELSE "id"
       /\ IF id_ok
            THEN /\ ncalls' = Called(ncalls, "Dial")
                 /\ StepEnd
            ELSE /\ pc_e' = "fatal"
                 /\ UNCHANGED <<ncalls, exec_locals>>
  /\ UNCHANGED <<runner_vars, span_from, span_obs, out_open, world_mtx, world, cons_vars,
                 host_vars, now, trace, nwarn, nerr, ncloses, world_obs, step_obs>>

\* case "join": the identity hash file
ExecJoinRead ==
  /\ pc_e = "action"
  /\ SwitchCase(Do) = "join"
  /\ executed' = executed \cup {idx}
  /\ \E id_ok \in BOOLEAN :
       /\ read_err' = IF id_ok THEN read_err ELSE "join_id"
       /\ pc_e' = IF id_ok THEN "join_lock" ELSE "fatal"
  /\ UNCHANGED <<runner_vars, span_from, span_obs, out_open, world_mtx, world, exec_locals, cons_vars,
                 host_vars, now, trace, ncalls, nwarn, nerr, ncloses, world_obs, step_obs>>

\* sr.world_mtx.Lock() before the close path of join
ExecJoinLock ==
  /\ pc_e = "join_lock"
  /\ CanLock(world_mtx)
  /\ world_mtx' = "exec"
  /\ span_from' = now
  /\ pc_e' = "join_close"
  /\ UNCHANGED <<runner_vars, read_err, span_obs, out_open, world, exec_locals, cons_vars, host_vars, now,
                 trace, ncalls, nwarn, nerr, ncloses, executed, world_obs, step_obs>>

\* if sr.world != nil { CloseWorld; X line }; sr.world = nil
ExecJoinClose ==
  /\ pc_e = "join_close"
  /\ IF NeedsClose(world)
       THEN /\ ncalls' = Called(ncalls, "CloseWorld")
            /\ closed' = closed \cup {world}
            /\ \E t \in Stamps :
                 trace' = Append(trace, Stamped(Line("X", XSubject(world), "exec", world),
                                                CloseStamp(t)))
            /\ span_calls' = span_calls + 1
            /\ span_writes' = span_writes + 1
       ELSE UNCHANGED <<ncalls, closed, trace, span_obs>>
  /\ step_old' = world
  /\ world' = NoWorld
  /\ pc_e' = "join_unlock"
  /\ UNCHANGED <<runner_vars, span_from, read_err, out_open, world_mtx, exec_locals, cons_vars, host_vars,
                 now, nwarn, nerr, ncloses, executed, returned, left, join_calls,
                 join_ok, superseded>>

\* sr.world_mtx.Unlock(); the retry loop starts at i = 0
ExecJoinUnlock ==
  /\ pc_e = "join_unlock"
  /\ world_mtx' = Released(world_mtx)
  /\ span_calls' = 0
  /\ span_writes' = 0
  /\ span_from' = 0
  /\ i' = 0
  /\ pc_e' = "join_loop"
  /\ UNCHANGED <<runner_vars, read_err, out_open, world, idx, target, err, cons_vars, host_vars,
                 now, trace, ncalls, nwarn, nerr, ncloses, executed, world_obs, step_obs>>

\* for i := range 100 { if i == 99 { log; break }; sr.world_mtx.Lock()
ExecJoinLoop ==
  /\ pc_e = "join_loop"
  /\ IF i = LastIter \/ i >= MaxAttempts
       THEN /\ nerr' = IF i = LastIter THEN nerr + 1 ELSE nerr
            /\ StepEnd
            /\ UNCHANGED <<world_mtx, span_from>>
       ELSE /\ CanLock(world_mtx)
            /\ world_mtx' = "exec"
            /\ span_from' = now
            /\ pc_e' = "join_call"
            /\ UNCHANGED <<nerr, exec_locals>>
  /\ UNCHANGED <<runner_vars, read_err, span_obs, out_open, world, cons_vars, host_vars,
                 now, trace, ncalls, nwarn, ncloses, executed, world_obs, step_obs>>

\* sr.world, err = sr.host.JoinWorld(string(id_hash), "/")
ExecJoinCall ==
  /\ pc_e = "join_call"
  /\ ncalls' = Called(ncalls, "JoinWorld")
  /\ join_calls' = join_calls + 1
  /\ span_calls' = span_calls + 1
  /\ UNCHANGED span_writes
  /\ \/ \* the host returns a World
        /\ world' = next_world
        /\ err' = FALSE
        /\ next_world' = next_world + 1
        /\ returned' = returned \cup {next_world}
        /\ join_ok' = IF join_ok = NoWorld THEN next_world ELSE join_ok
        /\ superseded' = IF step_old # NoWorld
                           THEN superseded \cup {<<step_old, next_world, idx>>}
                           ELSE superseded
        /\ UNCHANGED fail_budget
     \/ \* the host returns nil and an error
        /\ fail_budget > 0
        /\ fail_budget' = fail_budget - 1
        /\ world' = NoWorld
        /\ err' = TRUE
        /\ UNCHANGED <<next_world, returned, join_ok, superseded>>
  /\ pc_e' = "join_unlock2"
  /\ UNCHANGED <<runner_vars, span_from, read_err, out_open, world_mtx, idx, target, i, cons_vars,
                 ch_closed, ev_budget, now, trace, nwarn, nerr, ncloses, executed,
                 closed, left, step_old>>

\* sr.world_mtx.Unlock(); if err == nil { break }
ExecJoinUnlock2 ==
  /\ pc_e = "join_unlock2"
  /\ world_mtx' = Released(world_mtx)
  /\ span_calls' = 0
  /\ span_writes' = 0
  /\ span_from' = 0
  /\ IF JoinDone(err)
       THEN /\ StepEnd
       ELSE /\ pc_e' = "join_sleep"
            /\ UNCHANGED exec_locals
  /\ UNCHANGED <<runner_vars, read_err, out_open, world, cons_vars, host_vars,
                 now, trace, ncalls, nwarn, nerr, ncloses, executed, world_obs, step_obs>>

\* time.Sleep(time.Millisecond * 100), then the next i
ExecJoinSleep ==
  /\ pc_e = "join_sleep"
  /\ now' = now + JoinSleepMs
  /\ i' = i + 1
  /\ pc_e' = "join_loop"
  /\ UNCHANGED <<runner_vars, span_from, read_err, span_obs, out_open, world_mtx, world, idx, target, err, cons_vars,
                 host_vars, trace, ncalls, nwarn, nerr, ncloses, executed, world_obs,
                 step_obs>>

\* case "open": sr.world_mtx.Lock()
ExecOpenLock ==
  /\ pc_e = "action"
  /\ SwitchCase(Do) = "open"
  /\ CanLock(world_mtx)
  /\ world_mtx' = "exec"
  /\ span_from' = now
  /\ executed' = executed \cup {idx}
  /\ pc_e' = "open_body"
  /\ UNCHANGED <<runner_vars, read_err, span_obs, out_open, world, exec_locals, cons_vars, host_vars, now,
                 trace, ncalls, nwarn, nerr, ncloses, world_obs, step_obs>>

\* if sr.world != nil { CloseWorld; X line }; sr.world = sr.host.OpenWorld(...)
ExecOpen ==
  /\ pc_e = "open_body"
  /\ IF NeedsClose(world)
       THEN /\ ncalls' = Called(Called(ncalls, "CloseWorld"), "OpenWorld")
            /\ closed' = closed \cup {world}
            /\ \E t \in Stamps :
                 trace' = Append(trace, Stamped(Line("X", XSubject(world), "exec", world),
                                                CloseStamp(t)))
            /\ span_calls' = span_calls + 2
            /\ span_writes' = span_writes + 1
       ELSE /\ ncalls' = Called(ncalls, "OpenWorld")
            /\ span_calls' = span_calls + 1
            /\ UNCHANGED <<closed, trace, span_writes>>
  /\ step_old' = world
  /\ superseded' = IF world # NoWorld
                     THEN superseded \cup {<<world, next_world, idx>>}
                     ELSE superseded
  /\ world' = next_world
  /\ next_world' = next_world + 1
  /\ returned' = returned \cup {next_world}
  /\ pc_e' = "open_unlock"
  /\ UNCHANGED <<runner_vars, span_from, read_err, out_open, world_mtx, exec_locals, cons_vars,
                 ch_closed, ev_budget, fail_budget, now, nwarn, nerr, ncloses, executed,
                 left, join_calls, join_ok>>

\* sr.world_mtx.Unlock() at the end of open
ExecOpenUnlock ==
  /\ pc_e = "open_unlock"
  /\ world_mtx' = Released(world_mtx)
  /\ span_calls' = 0
  /\ span_writes' = 0
  /\ span_from' = 0
  /\ StepEnd
  /\ UNCHANGED <<runner_vars, read_err, out_open, world, cons_vars, host_vars,
                 now, trace, ncalls, nwarn, nerr, ncloses, executed, world_obs, step_obs>>

\* a "do" value no case of the switch names
ExecOther ==
  /\ pc_e = "action"
  /\ SwitchCase(Do) = "none"
  /\ executed' = executed \cup {idx}
  /\ StepEnd
  /\ UNCHANGED <<runner_vars, span_from, read_err, span_obs, out_open, world_mtx, world, cons_vars,
                 host_vars, now, trace, ncalls, nwarn, nerr, ncloses, world_obs, step_obs>>

TimeEndMs == time_end * MsPerSec

\* after the loop: wait until time_end
ExecEndWait ==
  /\ pc_e = "end_wait"
  /\ now' = IF After(TimeEndMs, now) THEN TimeEndMs ELSE now
  /\ pc_e' = "closing"
  /\ UNCHANGED <<runner_vars, span_from, read_err, span_obs, out_open, world_mtx, world, exec_locals, cons_vars,
                 host_vars, trace, ncalls, nwarn, nerr, ncloses, executed, world_obs,
                 step_obs>>

\* sr.out_f.Close(); return nil
ExecClose ==
  /\ pc_e = "closing"
  /\ out_open' = FALSE
  /\ ncloses' = ncloses + 1
  /\ pc_e' = "done"
  /\ UNCHANGED <<runner_vars, span_from, read_err, span_obs, world_mtx, world, exec_locals, cons_vars, host_vars, now,
                 trace, ncalls, nwarn, nerr, executed, world_obs, step_obs>>


(***************************************************************************)
(* HandleEvents: the event consumer.                                       *)
(***************************************************************************)
\* the events the host can send now: any kind, about any World it has made
HostEvents ==
  {[kind |-> k, world |-> w, session |-> PeerSession] :
     k \in EventKinds, w \in 1..(next_world - 1)}

\* any_event, ok := <-event_ch; if !ok { break }
\* (the host's send and this receive are one step; a closed channel gives !ok)
ConsRecv ==
  /\ Alive
  /\ pc_c = "recv"
  /\ IF ch_closed
       THEN /\ pc_c' = "stopped"
            /\ UNCHANGED <<ev, ev_budget>>
       ELSE /\ ev_budget > 0
            /\ ev_budget' = ev_budget - 1
            /\ ev' \in HostEvents
            /\ pc_c' = "lock"
  /\ UNCHANGED <<runner_vars, span_from, read_err, span_obs, out_open, world_mtx, world, pc_e, exec_locals, ch_closed,
                 next_world, fail_budget, now, trace, ncalls, nwarn, nerr,
                 ncloses, executed, world_obs, step_obs>>

\* sr.world_mtx.Lock()
ConsLock ==
  /\ Alive
  /\ pc_c = "lock"
  /\ CanLock(world_mtx)
  /\ world_mtx' = "cons"
  /\ span_from' = now
  /\ pc_c' = "handle"
  /\ UNCHANGED <<runner_vars, read_err, span_obs, out_open, world, pc_e, exec_locals, ev, host_vars, now,
                 trace, ncalls, nwarn, nerr, ncloses, executed, world_obs, step_obs>>

\* switch event := any_event.(type)
ConsHandle ==
  /\ Alive
  /\ pc_c = "handle"
  /\ pc_c' = "unlock"
  /\ IF ev.kind \in {"ObjectAppend", "ObjectDelete"} \/ ~Matches(world, ev)
       THEN UNCHANGED <<world, trace, ncalls, left, span_obs>>
       ELSE CASE ev.kind = "WorldEnter" ->
                   /\ ncalls' = Called(ncalls, "ExposeWorldForJoin")
                   /\ \E t \in Stamps :
                        trace' = Append(trace, Stamped(Line(LineCode(ev.kind), SessionID(ev.world),
                                                            "cons", ev.world), t))
                   /\ span_calls' = span_calls + 1
                   /\ span_writes' = span_writes + 1
                   /\ UNCHANGED <<world, left>>
              [] ev.kind = "SessionRequest" ->
                   /\ ncalls' = Called(ncalls, "AcceptWorldSession")
                   /\ span_calls' = span_calls + 1
                   /\ UNCHANGED <<world, trace, left, span_writes>>
              [] ev.kind \in {"SessionReady", "SessionClose"} ->
                   /\ \E t \in Stamps :
                        trace' = Append(trace, Stamped(Line(LineCode(ev.kind), ev.session,
                                                            "cons", ev.world), t))
                   /\ span_writes' = span_writes + 1
                   /\ UNCHANGED <<world, ncalls, left, span_calls>>
              [] ev.kind = "WorldLeave" ->
                   /\ left' = IF AfterLeave(world) = NoWorld THEN left \cup {world} ELSE left
                   /\ world' = AfterLeave(world)
                   /\ \E t \in Stamps :
                        trace' = Append(trace, Stamped(Line(LineCode(ev.kind), SessionID(ev.world),
                                                            "cons", ev.world), t))
                   /\ span_writes' = span_writes + 1
                   /\ UNCHANGED <<ncalls, span_calls>>
  /\ UNCHANGED <<runner_vars, span_from, read_err, out_open, world_mtx, pc_e, exec_locals, ev, host_vars, now,
                 nwarn, nerr, ncloses, executed, returned, closed, step_obs>>

\* sr.world_mtx.Unlock()
ConsUnlock ==
  /\ Alive
  /\ pc_c = "unlock"
  /\ world_mtx' = Released(world_mtx)
  /\ span_calls' = 0
  /\ span_writes' = 0
  /\ span_from' = 0
  /\ ev' = NoEvent
  /\ pc_c' = "recv"
  /\ UNCHANGED <<runner_vars, read_err, out_open, world, pc_e, exec_locals, host_vars, now,
                 trace, ncalls, nwarn, nerr, ncloses, executed, world_obs, step_obs>>

(***************************************************************************)
(* The environment: the host's shutdown.                                   *)
(***************************************************************************)
\* the host shuts down: the event channel is closed, no event is sent any more
\* (the consumer looks at the channel only in its receive, so the close is
\* taken when the consumer is there)
HostClose ==
  /\ Alive
  /\ ~ch_closed
  /\ pc_c = "recv"
  /\ ch_closed' = TRUE
  /\ ev_budget' = 0
  /\ UNCHANGED <<runner_vars, span_from, read_err, span_obs, out_open, world_mtx, world, pc_e, exec_locals, cons_vars,
                 next_world, fail_budget, now, trace, ncalls, nwarn,
                 nerr, ncloses, executed, world_obs, step_obs>>

Next ==
  \/ ExecNextStep \/ ExecWait \/ ExecAdd \/ ExecDial
  \/ ExecJoinRead \/ ExecJoinLock \/ ExecJoinClose \/ ExecJoinUnlock
  \/ ExecJoinLoop \/ ExecJoinCall \/ ExecJoinUnlock2 \/ ExecJoinSleep
  \/ ExecOpenLock \/ ExecOpen \/ ExecOpenUnlock \/ ExecOther
  \/ ExecEndWait \/ ExecClose
  \/ ConsRecv \/ ConsLock \/ ConsHandle \/ ConsUnlock
  \/ HostClose

Spec == Init /\ [][Next]_vars

\* the same program with a host whose JoinWorld may fail on every attempt
SpecRetry == InitRetry /\ [][Next]_vars


\* the steps of Run
ExecStep ==
  \/ ExecNextStep \/ ExecWait \/ ExecAdd \/ ExecDial
  \/ ExecJoinRead \/ ExecJoinLock \/ ExecJoinClose \/ ExecJoinUnlock
  \/ ExecJoinLoop \/ ExecJoinCall \/ ExecJoinUnlock2 \/ ExecJoinSleep
  \/ ExecOpenLock \/ ExecOpen \/ ExecOpenUnlock \/ ExecOther
  \/ ExecEndWait \/ ExecClose

\* the steps of HandleEvents that wait for no event: those with an event in
\* hand, and the receive on a closed channel
ConsStep == ConsLock \/ ConsHandle \/ ConsUnlock \/ (ch_closed /\ ConsRecv)

\* SpecRetry with the scheduling Go gives: both goroutines keep running, every
\* host call returns, every sleep ends, a held mutex is released
SpecLive == InitRetry /\ [][Next]_vars /\ WF_vars(ExecStep) /\ WF_vars(ConsStep)

(***************************************************************************)
(* Vocabulary of the properties.                                           *)
(***************************************************************************)
\* a decimal integer: an optional sign, then one or more digits
IsInteger(s) ==
  /\ s # <<>>
  /\ LET body == IF s[1] \in {"+", "-"} THEN Tail(s) ELSE s
     IN body # <<>> /\ \A k \in DOMAIN body : body[k] \in Digits

Malformed(k) ==
  "time" \notin DOMAIN scenario[k] \/ ~IsInteger(scenario[k]["time"])

\* time_start + time_offset of a well-formed step
TargetOf(k) == time_start + ParseInt(scenario[k]["time"]).val

\* the executor takes a step of its own
ExecMoves == pc_e' # pc_e \/ idx' # idx

\* the consumer handles the event in hand
ConsHandles == pc_c = "handle" /\ pc_c' = "unlock"

XLines(w) ==
  {k \in DOMAIN trace : trace[k].code = "X" /\ trace[k].subject = SessionID(w)}

\* the action of descriptor k
DoOf(k) == Get(scenario[k], "do")

\* the steps of one action whose iteration of the step loop has ended
Finished(do) == {k \in executed : k < idx /\ DoOf(k) = do}

\* the executor is between a Lock and the matching Unlock
ExecInSpan ==
  pc_e \in {"join_close", "join_unlock", "join_call", "join_unlock2",
            "open_body", "open_unlock"}

\* the consumer is between its Lock and its Unlock
ConsInSpan == pc_c \in {"handle", "unlock"}

\* the executor is at a statement that reads or writes sr.world
ExecAtWorld == pc_e \in {"join_close", "join_call", "open_body"}

\* the consumer is at the type switch, which reads and writes sr.world
ConsAtWorld == pc_c = "handle"

\* the executor is at a statement that may write a trace line
ExecAtWrite == pc_e \in {"join_close", "open_body"}

\* the consumer is at the type switch, whose cases write the trace lines
ConsAtWrite == pc_c = "handle"

\* this step appends exactly one line to the trace, written by the consumer
ConsWrote(code, subject) ==
  /\ Len(trace') = Len(trace) + 1
  /\ SubSeq(trace', 1, Len(trace)) = trace
  /\ trace'[Len(trace')].code = code
  /\ trace'[Len(trace')].subject = subject
  /\ trace'[Len(trace')].by = "cons"

\* the executor is at a world_mtx.Lock() (lines 107, 121, 133)
ExecAtLock ==
  \/ pc_e = "join_lock"
  \/ pc_e = "join_loop" /\ i < LastIter
  \/ pc_e = "action" /\ SwitchCase(Do) = "open"

RefersTo(line, w) ==
  \/ line.code \in {"E", "X"} /\ line.subject = SessionID(w)
  \/ line.code \in {"J", "L"} /\ line.w = w

(***************************************************************************)
(* C1: the executor performs the action of no step whose target,           *)
(* time_start + time_offset, is >= time_end, and of no step that comes     *)
(* after the first well-formed step with such a target.                    *)
(***************************************************************************)
C1_NoStepPastWindow ==
  \A k \in executed :
    /\ ~Malformed(k)
    /\ TargetOf(k) < time_end
    /\ \A j \in 1..(k - 1) : ~Malformed(j) => TargetOf(j) < time_end

\* the run is over; a step at the cutoff was followed by a step inside the window
C1_Witness ==
  /\ pc_e = "done"
  /\ \E j, k \in DOMAIN scenario :
       /\ j < k
       /\ ~Malformed(j) /\ TargetOf(j) >= time_end
       /\ ~Malformed(k) /\ TargetOf(k) < time_end
       /\ k \notin executed

(***************************************************************************)
(* C2: SessionState references one World at most, always one the host      *)
(* returned; every World the host returned is the referenced one, or was   *)
(* passed to CloseWorld, or was cleared by a handled WorldLeave; and every *)
(* World passed to CloseWorld has its X line, written by the executor.     *)
(***************************************************************************)
C2_WorldsAccounted ==
  /\ world \in {NoWorld} \cup returned
  /\ returned \subseteq ({world} \cup closed \cup left)
  /\ \A w \in closed :
       \E k \in XLines(w) : trace[k].by = "exec"

\* a World was closed and logged, and another one is referenced in its place
C2_Witness ==
  /\ world # NoWorld
  /\ closed # {}
  /\ world \notin closed
  /\ \A w \in closed : XLines(w) # {}

(***************************************************************************)
(* C3: when an OPEN or a successful JOIN replaces the World referenced     *)
(* at its close path, the trace holds exactly one X line for the old       *)
(* World, written by that step, and it comes before every line that        *)
(* refers to the new World.                                                *)
(***************************************************************************)
C3_CloseLoggedFirst ==
  \A p \in superseded :
    LET old == p[1]
        new == p[2]
    IN /\ Cardinality(XLines(old)) = 1
       /\ \A k \in XLines(old) :
            /\ trace[k].by = "exec"
            /\ trace[k].step = p[3]
            /\ \A m \in DOMAIN trace : RefersTo(trace[m], new) => k < m

\* a World was replaced and a line about the new World is in the trace
C3_Witness ==
  \E p \in superseded :
    \E m \in DOMAIN trace : RefersTo(trace[m], p[2])

(***************************************************************************)
(* C4: one JOIN step calls JoinWorld at most 100 times, makes no call      *)
(* after the first call that returned no error, and the World of that      *)
(* call is the referenced one when the step ends and until the next step   *)
(* begins, unless an event cleared the reference.                          *)
(***************************************************************************)
C4_JoinAttemptsBounded ==
  /\ join_calls <= MaxAttempts
  /\ pc_e \in {"join_call", "join_sleep"} => join_ok = NoWorld
  /\ pc_e = "join_unlock2" /\ join_ok # NoWorld => world = join_ok
  /\ join_ok # NoWorld => world \in {join_ok, NoWorld}

\* a JOIN step that failed first and then succeeded has ended
C4_Witness ==
  /\ pc_e = "loop"
  /\ join_calls > 1
  /\ join_ok # NoWorld
  /\ world = join_ok

(***************************************************************************)
(* C5: a JOIN step whose JoinWorld fails every time makes 100 attempts     *)
(* before it logs the failure and gives up.                                *)
(***************************************************************************)
C5_HundredAttempts ==
  pc_e = "join_loop" /\ i = LastIter => join_calls = MaxAttempts

(***************************************************************************)
(* C6: no trace write is issued on the sink after the executor closed it.  *)
(***************************************************************************)
C6_NoWriteAfterClose ==
  \A k \in DOMAIN trace : trace[k].ok

(***************************************************************************)
(* C7: the sink is closed at most once, exactly once when Run returns,     *)
(* only after every executed step has finished, and never before the       *)
(* clock has reached time_end.                                             *)
(***************************************************************************)
C7_ClosedOnceAtEnd ==
  /\ ncloses <= 1
  /\ out_open <=> ncloses = 0
  /\ pc_e = "done" <=> ncloses = 1
  /\ ncloses = 1 =>
       /\ now >= TimeEndMs
       /\ world_mtx # "exec"
       /\ \A k \in executed : k < idx

\* the step list stopped early and the sink was closed at time_end
C7_Witness ==
  /\ pc_e = "done"
  /\ ncloses = 1
  /\ idx <= Len(scenario)
  /\ now = TimeEndMs

(***************************************************************************)
(* C8: handling a WorldLeave whose world has the session id of the         *)
(* referenced World clears the reference and issues one X line with that   *)
(* session id; a World that was left is referenced no more, and the        *)
(* reference stays empty until an OPEN or JOIN step stores a World.        *)
(***************************************************************************)
C8_WorldLeaveClears ==
  /\ [][ (/\ ConsHandles
          /\ ev.kind = "WorldLeave"
          /\ world # NoWorld
          /\ SessionID(world) = SessionID(ev.world))
         => /\ world' = NoWorld
            /\ Len(trace') = Len(trace) + 1
            /\ SubSeq(trace', 1, Len(trace)) = trace
            /\ trace'[Len(trace')].code = "X"
            /\ trace'[Len(trace')].subject = SessionID(ev.world)
            /\ trace'[Len(trace')].by = "cons" ]_vars
  /\ [][ /\ world' \notin left'
         /\ \A w \in left' : \E k \in XLines(w)' : trace'[k].by = "cons" ]_vars
  /\ [][ world = NoWorld /\ world' # NoWorld
         => pc_e \in {"open_body", "join_call"} /\ ExecMoves ]_vars

\* an opened World was left: its X line is written and nothing is referenced
C8_Witness ==
  /\ left # {}
  /\ world = NoWorld
  /\ closed = {}
  /\ \E w \in left : \E k \in XLines(w) : trace[k].by = "cons"

(***************************************************************************)
(* C9: handling an event while no World is referenced, or one of another   *)
(* session id than the event's world, makes no host call, writes no line   *)
(* and leaves the reference alone; so does ObjectAppend / ObjectDelete     *)
(* whatever the session.                                                   *)
(***************************************************************************)
C9_IgnoredEventNoEffect ==
  [][ (/\ ConsHandles
       /\ \/ world = NoWorld
          \/ SessionID(world) # SessionID(ev.world)
          \/ ev.kind \in {"ObjectAppend", "ObjectDelete"})
      => /\ world' = world
         /\ trace' = trace
         /\ ncalls' = ncalls ]_vars

\* a WorldLeave about another World than the referenced one has been handled
C9_Witness ==
  /\ pc_c = "unlock"
  /\ ev.kind = "WorldLeave"
  /\ world # NoWorld
  /\ ev.world # world

(***************************************************************************)
(* C10: a descriptor without time, or with a time that is no integer, is   *)
(* skipped: the executor only moves on to the next descriptor (and warns), *)
(* with no host call, no line, no wait, no change of the reference and no  *)
(* abort; its action is never performed.                                   *)
(***************************************************************************)
C10_MalformedSkipped ==
  /\ [][ (/\ pc_e = "loop"
          /\ idx <= Len(scenario)
          /\ Malformed(idx)
          /\ ExecMoves)
         => /\ pc_e' = "loop"
            /\ idx' = idx + 1
            /\ nwarn' = nwarn + 1
            /\ UNCHANGED <<runner_vars, span_from, read_err, span_obs, out_open, world_mtx, world, target, i, err,
                           cons_vars, host_vars, now, trace, ncalls, nerr, ncloses,
                           executed, world_obs, step_obs>> ]_vars
  /\ [][ \A k \in executed' : ~Malformed(k) ]_vars

\* a well-formed step was executed after a malformed one was skipped
C10_Witness ==
  /\ nwarn > 0
  /\ \E k \in executed : \E j \in 1..(k - 1) : Malformed(j)

(***************************************************************************)
(* C11: when an ADD step cannot read the root or the handshake certificate *)
(* of its peer, or a DIAL step cannot read the identity hash, the run      *)
(* aborts there: AppendKnownPeer / Dial is not called for that step, no    *)
(* later step is executed, the sink is not closed, and nothing of that     *)
(* changes afterwards.                                                     *)
(***************************************************************************)
C11_ReadFailureAborts ==
  /\ [][ read_err' \in {"rc", "hs", "id"}
         => /\ pc_e' = "fatal"
            /\ ncalls'["AppendKnownPeer"] = Cardinality(Finished("add"))'
            /\ ncalls'["Dial"] = Cardinality(Finished("dial"))'
            /\ \A k \in executed' : k <= idx'
            /\ out_open'
            /\ ncloses' = 0 ]_vars
  /\ [][ pc_e = "fatal"
         => UNCHANGED <<pc_e, idx, executed, ncalls, trace, world, out_open, ncloses>> ]_vars

\* a first add registered its peer, the next add could not read the
\* handshake certificate
C11_Witness ==
  /\ pc_e = "fatal"
  /\ read_err = "hs"
  /\ idx = 2
  /\ ncalls["AppendKnownPeer"] = 1

(***************************************************************************)
(* C12: once the runner is constructed, the run aborts only at an ADD or   *)
(* a DIAL step; nothing that happens in a JOIN step, an OPEN step, a step  *)
(* of an unknown action or a malformed descriptor stops the timeline.      *)
(***************************************************************************)
C12_AbortOnlyAddDial ==
  pc_e = "fatal" => DoOf(idx) \in {"add", "dial"}

(***************************************************************************)
(* C13: whenever a loop is at a statement that reads or writes the World   *)
(* reference it holds world_mtx, the reference changes only in a step of   *)
(* the loop that holds world_mtx, and the two loops are never both         *)
(* between Lock and Unlock.                                                *)
(***************************************************************************)
C13_WorldUnderLock ==
  /\ [][ /\ ExecAtWorld' => world_mtx' = "exec"
         /\ ConsAtWorld' => world_mtx' = "cons"
         /\ ExecInSpan' => world_mtx' = "exec"
         /\ ConsInSpan' => world_mtx' = "cons"
         /\ ~(ExecInSpan' /\ ConsInSpan') ]_vars
  /\ [][ world' # world
         => \/ world_mtx = "exec" /\ ExecAtWorld /\ ExecMoves
            \/ world_mtx = "cons" /\ ConsAtWorld /\ ConsHandles ]_vars

\* the executor is replacing the World while the consumer, with an event in
\* hand, waits for the lock
C13_Witness ==
  /\ pc_e = "open_body"
  /\ world # NoWorld
  /\ world_mtx = "exec"
  /\ pc_c = "lock"

(***************************************************************************)
(* C14: every trace line was written by a loop that held world_mtx while   *)
(* it wrote, and the two loops are never both at a statement that writes   *)
(* to the trace: no write of one loop starts during a write of the other.  *)
(***************************************************************************)
C14_WritesSerialized ==
  /\ \A k \in DOMAIN trace : trace[k].held = trace[k].by
  /\ ~(ExecAtWrite /\ ConsAtWrite)
  /\ ExecAtWrite => world_mtx = "exec"
  /\ ConsAtWrite => world_mtx = "cons"

\* both loops have written to the trace
C14_Witness ==
  /\ \E k \in DOMAIN trace : trace[k].by = "exec"
  /\ \E k \in DOMAIN trace : trace[k].by = "cons"

(***************************************************************************)
(* C15: when Run has waited until time_end and closed the sink, no World   *)
(* is referenced.                                                          *)
(***************************************************************************)
C15_EmptyAtEnd ==
  pc_e = "done" => world = NoWorld

(***************************************************************************)
(* C16: whatever the scenario, Run eventually closes the sink and returns  *)
(* (a JOIN whose JoinWorld always fails gives up and lets the run go on),  *)
(* unless an ADD or DIAL step aborted the run on a contact read.           *)
(***************************************************************************)
C16_EventuallyReturns ==
  <>(pc_e = "done" \/ read_err \in {"rc", "hs", "id"})

(***************************************************************************)
(* C17 as stated: between a Lock and the matching Unlock a loop makes at   *)
(* most one host call and at most one trace write.                         *)
(***************************************************************************)
C17_OneCallOneWrite ==
  /\ span_calls <= 1
  /\ span_writes <= 1

(***************************************************************************)
(* C17: between a Lock and the matching Unlock a loop makes at most one    *)
(* trace write, and at most one host call, except the OPEN step that       *)
(* found a World referenced: it makes two, CloseWorld and OpenWorld,       *)
(* with the one X line; an OPEN that found none makes one and writes       *)
(* nothing.                                                                *)
(***************************************************************************)
C17_SpanCallsAndWrites ==
  /\ span_writes <= 1
  /\ span_calls <= 2
  /\ span_calls = 2 => pc_e = "open_unlock" /\ step_old # NoWorld
  /\ pc_e = "open_unlock" =>
       /\ span_calls = (IF step_old # NoWorld THEN 2 ELSE 1)
       /\ span_writes = (IF step_old # NoWorld THEN 1 ELSE 0)
  /\ ~ExecInSpan /\ ~ConsInSpan => span_calls = 0 /\ span_writes = 0

\* an OPEN has closed the referenced World and opened the next in one span
C17_Witness ==
  /\ pc_e = "open_unlock"
  /\ world_mtx = "exec"
  /\ span_calls = 2
  /\ span_writes = 1

(***************************************************************************)
(* C18: the executor does not hold world_mtx while it sleeps (the wait for *)
(* the target instant, the 100 ms between JOIN attempts, the wait for      *)
(* time_end), nor between steps or after the close; the consumer does not  *)
(* hold it while it waits for an event or after its loop ended.            *)
(***************************************************************************)
C18_NoLockWhileSuspended ==
  /\ pc_e \in {"wait", "join_sleep", "end_wait"} => world_mtx # "exec"
  /\ pc_e \in {"loop", "action", "closing", "done"} => world_mtx # "exec"
  /\ pc_c \in {"recv", "stopped"} => world_mtx # "cons"

\* the executor sleeps between two JOIN attempts while the consumer holds
\* the lock
C18_Witness ==
  /\ pc_e = "join_sleep"
  /\ world_mtx = "cons"
  /\ pc_c = "handle"

(***************************************************************************)
(* C19: steps are executed in list order: a step's action starts only      *)
(* when the executor is at the dispatch point of that very descriptor,     *)
(* outside every lock span, and every step executed before comes earlier   *)
(* in the list; and the wait before a step moves the clock to the target   *)
(* instant only when that instant is later than the clock: otherwise the   *)
(* step is dispatched with the clock untouched.                            *)
(***************************************************************************)
C19_ListOrderNoWait ==
  /\ [][ \A k \in executed' \ executed :
           /\ k = idx
           /\ pc_e = "action"
           /\ world_mtx # "exec"
           /\ \A j \in executed : j < k ]_vars
  /\ [][ executed \subseteq executed' ]_vars
  /\ [][ pc_e = "wait" /\ ExecMoves
         => /\ pc_e' = "action"
            /\ idx' = idx
            /\ now' = (IF TargetOf(idx) * MsPerSec > now
                         THEN TargetOf(idx) * MsPerSec ELSE now) ]_vars

\* two steps were executed, the second with the earlier target: the clock
\* still shows the target of the first
C19_Witness ==
  /\ executed = {1, 2}
  /\ TargetOf(2) < TargetOf(1)
  /\ now = TargetOf(1) * MsPerSec

(***************************************************************************)
(* C20: handling an event whose world has the session id of the            *)
(* referenced World does, by kind: WorldEnter, one ExposeWorldForJoin call *)
(* and one E line with the world's session id; SessionRequest, one         *)
(* AcceptWorldSession call and no line; SessionReady, one J line with the  *)
(* event's session id and no call; SessionClose, one L line with the       *)
(* event's session id and no call; and none of them changes the reference. *)
(***************************************************************************)
C20_MatchingEventHandled ==
  [][ (/\ ConsHandles
       /\ world # NoWorld
       /\ SessionID(world) = SessionID(ev.world)
       /\ ev.kind \in {"WorldEnter", "SessionRequest", "SessionReady", "SessionClose"})
      => /\ world' = world
         /\ CASE ev.kind = "WorldEnter" ->
                   /\ ncalls' = Called(ncalls, "ExposeWorldForJoin")
                   /\ ConsWrote("E", SessionID(world))
              [] ev.kind = "SessionRequest" ->
                   /\ ncalls' = Called(ncalls, "AcceptWorldSession")
                   /\ trace' = trace
              [] ev.kind = "SessionReady" ->
                   /\ ncalls' = ncalls
                   /\ ConsWrote("J", ev.session)
              [] ev.kind = "SessionClose" ->
                   /\ ncalls' = ncalls
                   /\ ConsWrote("L", ev.session) ]_vars

\* a SessionReady of the referenced World was handled: its J line is the
\* last of the trace and the World is still referenced
C20_Witness ==
  /\ pc_c = "unlock"
  /\ ev.kind = "SessionReady"
  /\ world = ev.world
  /\ trace # <<>>
  /\ trace[Len(trace)].code = "J"
  /\ trace[Len(trace)].subject = ev.session

(***************************************************************************)
(* C21: the action of an ADD step, of a DIAL step and of a step whose      *)
(* action no case names leaves the World reference alone and writes no     *)
(* trace line; the unnamed action also makes no host call and only ends    *)
(* the step; and such a step, like any other, is executed only inside the  *)
(* window and not before its target instant.                               *)
(***************************************************************************)
C21_AddDialOtherFrame ==
  /\ [][ (/\ pc_e = "action"
          /\ DoOf(idx) \notin {"join", "open"}
          /\ ExecMoves)
         => /\ world' = world
            /\ trace' = trace
            /\ world_mtx' = world_mtx
            /\ DoOf(idx) \notin {"add", "dial"}
                 => /\ ncalls' = ncalls
                    /\ pc_e' = "loop"
                    /\ idx' = idx + 1 ]_vars
  /\ [][ \A k \in executed' :
           DoOf(k) \notin {"add", "dial", "join", "open"}
             => /\ TargetOf(k) < time_end
                /\ now' >= TargetOf(k) * MsPerSec ]_vars

\* an open stored a World, then a step of an unknown action was executed
C21_Witness ==
  /\ pc_e = "loop"
  /\ idx = 3
  /\ executed = {1, 2}
  /\ DoOf(1) = "open"
  /\ DoOf(2) = "nop"
  /\ world # NoWorld

C25_OneXLinePerWorld ==
  /\ \A w \in returned :
       /\ Cardinality(XLines(w)) <= 1
       /\ w \in closed => \E k \in XLines(w) : trace[k].by = "exec"
       /\ w \in left => \E k \in XLines(w) : trace[k].by = "cons"
       /\ w \notin closed \cup left => XLines(w) = {}
  /\ closed \cap left = {}
  /\ \A k \in DOMAIN trace :
       trace[k].code = "X" => \E w \in returned : trace[k].subject = SessionID(w)

\* the consumer held a WorldLeave for a World, the executor closed that
\* World first, and the consumer then handled the event without writing
C25_Witness ==
  /\ pc_c = "unlock"
  /\ ev.kind = "WorldLeave"
  /\ ev.world \in closed
  /\ Cardinality(XLines(ev.world)) = 1
  /\ \A k \in XLines(ev.world) : trace[k].by = "exec"

(***************************************************************************)
(* C26: a loop holds world_mtx only between a Lock and its Unlock: it is   *)
(* never held by a loop that has left its span, returned, ended or         *)
(* aborted; a held lock is released, and a loop waiting at a Lock gets     *)
(* past it (the Lock is the only way on from there): a time comes when     *)
(* neither loop waits; the consumer comes to its Lock with the event it    *)
(* received in hand.  (Nothing runs in a process that log.Fatalf ended.)   *)
(***************************************************************************)
C26_NoDeadlockOnLock ==
  /\ [](world_mtx = "exec" => ExecInSpan)
  /\ [](world_mtx = "cons" => ConsInSpan)
  /\ [](pc_c = "lock" => ev # NoEvent)
  /\ [][ pc_e' \in {"fatal", "done"} => world_mtx' # "exec" /\ world_mtx # "exec" ]_vars
  /\ (world_mtx # "none") ~> (world_mtx = "none" \/ pc_e = "fatal")
  /\ (ExecAtLock \/ pc_c = "lock") ~> ((~ExecAtLock /\ pc_c # "lock") \/ pc_e = "fatal")

\* the consumer waits for the lock with an event in hand while the
\* executor, inside a JOIN attempt, holds it
C26_Witness ==
  /\ pc_c = "lock"
  /\ ev # NoEvent
  /\ world_mtx = "exec"
  /\ pc_e = "join_call"

====
